---- MODULE Spec2Model ----
(***************************************************************************)
(* URL shortener backend (src/main.py): the three request handlers         *)
(* shorten_url, redirect_to_url and get_url_stats running as asyncio tasks *)
(* against one MongoDB collection `urls`.  A task is atomic between two    *)
(* awaits, so every action below is one awaited store call together with   *)
(* the synchronous code that follows it up to the next await or return.    *)
(***************************************************************************)
EXTENDS Integers, Sequences, FiniteSets, Bags, TLC

(* ------------------------------ bounds --------------------------------- *)
\* number of request tasks suspended at an await at the same time
MaxTasks == 2
\* number of distinct (already validated, canonical) URL strings submitted
NumUrls == 2
\* number of steps of 1500 microseconds the wall clock advances
MaxTicks == 1
\* number of calls that write to the store: shorten_url calls that get past
\* the lookup by URL and redirect_to_url calls that find a record
MaxWrites == 3

Urls == 1..NumUrls

(* ------------------------- generate_short_code ------------------------- *)
\* the default of the length parameter: 6 in the program, 1 here, so that the
\* code space (2 codes instead of 62^6) can be used up
CodeLength == 1

\* string.ascii_letters + string.digits, cut down to two symbols
characters == {"a", "0"}

\* codes drawn from a URL-safe alphabet that also holds "-" and "_"
generate_short_code_urlsafe(length) == [1..length -> characters \cup {"-", "_"}]

\* the values ''.join(random.choice(characters) for _ in range(length)) can take
generate_short_code(length) == [1..length -> characters]

\* the codes a handler can be called with or can draw
Codes == generate_short_code(CodeLength)

(* ------------------------------ the store ------------------------------ *)
VARIABLES
    store,       \* collection `urls`: the documents in natural (insertion) order
    now,         \* the latest reading of datetime.utcnow(), in microseconds
    tasks,       \* the calls suspended at an await: a bag of their local states
    resp,        \* the response a handler has just returned, NoResp once it is sent
    issued,      \* per URL: the (short_url, created_at) pairs shorten_url has returned
    redirected   \* per code: the number of redirect calls that returned a URL

vars == <<store, now, tasks, resp, issued, redirected>>

NoUrl == 0
NoCode == <<>>
NoData == [short_code |-> NoCode, original_url |-> NoUrl, created_at |-> 0, clicks |-> 0]
NoResp == [op |-> "none", status |-> 0]

\* the local state of a suspended call: where it is, and its local variables
Task(at, u, c, d) == [pc |-> at, url_input |-> u, short_code |-> c, url_data |-> d]

\* the suspended calls that can resume. resp is a one-place channel to the
\* callers: a handler step is taken once the response before it has gone out,
\* which orders the steps and drops none of them
Running == IF resp = NoResp THEN BagToSet(tasks) ELSE {}
Suspend(t) == tasks (+) SetToBag({t})
Resume(t, t2) == (tasks (-) SetToBag({t})) (+) SetToBag({t2})
Finish(t) == tasks (-) SetToBag({t})

\* BSON stores a datetime as whole milliseconds: the microseconds below a
\* millisecond are dropped when a document is written
BsonDatetime(t) == t - (t % 1000)

\* the document as the collection holds it after insert_one
BsonDoc(d) == [d EXCEPT !.created_at = BsonDatetime(d.created_at)]

\* find_one({"original_url": u}): index of the first match in natural order, 0 if none
FindByUrl(s, u) ==
    IF \E i \in 1..Len(s) : s[i].original_url = u
    THEN CHOOSE i \in 1..Len(s) :
            /\ s[i].original_url = u
            /\ \A j \in 1..(i - 1) : s[j].original_url # u
    ELSE 0

\* find_one({"short_code": c}): index of the first match in natural order, 0 if none
FindByCode(s, c) ==
    IF \E i \in 1..Len(s) : s[i].short_code = c
    THEN CHOOSE i \in 1..Len(s) :
            /\ s[i].short_code = c
            /\ \A j \in 1..(i - 1) : s[j].short_code # c
    ELSE 0

\* a write keyed by short_code (replace_one with upsert) in place of insert_one
InsertOneReplace(s, d) ==
    LET i == FindByCode(s, d.short_code) IN
    IF i = 0 THEN Append(s, BsonDoc(d)) ELSE [s EXCEPT ![i] = BsonDoc(d)]

\* an insert that counts the creation as the first click
InsertOneCounted(s, d) == Append(s, BsonDoc([d EXCEPT !.clicks = 1]))

\* insert_one(d): the collection has no unique index, the document is appended
InsertOne(s, d) == Append(s, BsonDoc(d))

\* a read-modify-write in place of $inc: the count the task read, plus one
UpdateOneSetFromRead(s, t) ==
    LET i == FindByCode(s, t.short_code) IN
    IF i = 0 THEN s ELSE [s EXCEPT ![i].clicks = t.url_data.clicks + 1]

\* an update whose filter is dropped: the first document, whatever its code
UpdateOneIncUnfiltered(s, t) ==
    IF Len(s) = 0 THEN s ELSE [s EXCEPT ![1].clicks = @ + 1]

\* an update_many in place of update_one: every matching document is counted
UpdateManyInc(s, t) ==
    [i \in 1..Len(s) |->
        IF s[i].short_code = t.short_code THEN [s[i] EXCEPT !.clicks = @ + 1] ELSE s[i]]

\* update_one({"short_code": c}, {"$inc": {"clicks": 1}}) as issued by task t:
\* one atomic add on the first matching document, nothing when none matches
UpdateOneInc(s, t) ==
    LET i == FindByCode(s, t.short_code) IN
    IF i = 0 THEN s ELSE [s EXCEPT ![i].clicks = @ + 1]

(* ------------------------------ responses ------------------------------ *)
URLResponse(c, u, t) ==
    [op |-> "shorten", status |-> 200, short_url |-> c, original_url |-> u, created_at |-> t]

\* an empty 200 answer in place of the exception
NotFoundAsEmpty(o) == [op |-> o, status |-> 200]

\* HTTPException(status_code=404), raised by handler o
NotFound(o) == [op |-> o, status |-> 404]

RedirectResponse(u) == [op |-> "redirect", status |-> 200, url |-> u]

StatsResponse(d) ==
    [op |-> "stats", status |-> 200, short_code |-> d.short_code,
     original_url |-> d.original_url, created_at |-> d.created_at, clicks |-> d.clicks]

(* -------------------------------- Init --------------------------------- *)
Init ==
    /\ store = <<>>
    /\ now = 0
    /\ tasks = EmptyBag
    /\ resp = NoResp
    /\ issued = [u \in Urls |-> {}]
    /\ redirected = [c \in Codes |-> 0]

\* datetime.utcnow(): the clock has stood still since the latest reading or has
\* advanced by steps of 1500 microseconds, so a reading need not be a whole
\* number of milliseconds
utcnow == {now + 1500 * k : k \in 0..(MaxTicks - (now \div 1500))}

\* a new call can be taken on
Accepting == resp = NoResp /\ BagCardinality(tasks) < MaxTasks

\* the response goes out to the caller
Send ==
    /\ resp # NoResp
    /\ resp' = NoResp
    /\ UNCHANGED <<store, now, tasks, issued, redirected>>

(* ----------------------------- shorten_url ----------------------------- *)
RECURSIVE SumOver(_, _)
SumOver(f, S) ==
    IF S = {} THEN 0
    ELSE LET x == CHOOSE y \in S : TRUE IN f[x] + SumOver(f, S \ {x})

\* the calls that write to the store, finished or in flight
Writes == Len(store) + SumOver(redirected, Codes) + BagCardinality(tasks)

\* the URLs submitted so far; URLs are numbered in the order of their first submission
Submitted ==
    {store[i].original_url : i \in 1..Len(store)} \cup {t.url_input : t \in BagToSet(tasks)}

\* lines 66-75: the lookup by URL, the early return, the first candidate code
ShortenFindUrl(u) ==
    /\ Accepting
    /\ \A v \in 1..(u - 1) : v \in Submitted
    /\ LET i == FindByUrl(store, u) IN
       IF i # 0
       THEN /\ resp' = URLResponse(store[i].short_code, store[i].original_url,
                                   store[i].created_at)
            /\ issued' = [issued EXCEPT ![u] =
                             @ \cup {<<store[i].short_code, store[i].created_at>>}]
            /\ UNCHANGED tasks
       ELSE /\ Writes < MaxWrites
            /\ \E c \in generate_short_code(CodeLength) :
                   tasks' = Suspend(Task("s_check", u, c, NoData))
            /\ UNCHANGED <<resp, issued>>
    /\ UNCHANGED <<store, now, redirected>>

\* the candidate code taken without looking it up
ShortenNoCheck(t) ==
    /\ t \in Running
    /\ t.pc = "s_check"
    /\ \E time \in utcnow :
        /\ tasks' = Resume(t, [t EXCEPT !.pc = "s_insert",
                                        !.url_data = [short_code |-> t.short_code,
                                                      original_url |-> t.url_input,
                                                      created_at |-> time,
                                                      clicks |-> 0]])
        /\ now' = time
    /\ UNCHANGED <<store, resp, issued, redirected>>

\* lines 76-85: one turn of the while loop; on exit url_data is built
ShortenCheckCode(t) ==
    /\ t \in Running
    /\ t.pc = "s_check"
    /\ IF FindByCode(store, t.short_code) # 0
       THEN /\ \E c \in generate_short_code(CodeLength) :
                   tasks' = Resume(t, [t EXCEPT !.short_code = c])
            /\ UNCHANGED now
       ELSE \E time \in utcnow :
            /\ tasks' = Resume(t, [t EXCEPT !.pc = "s_insert",
                                            !.url_data = [short_code |-> t.short_code,
                                                          original_url |-> t.url_input,
                                                          created_at |-> time,
                                                          clicks |-> 0]])
            /\ now' = time
    /\ UNCHANGED <<store, resp, issued, redirected>>

\* lines 87-93: the insert and the response built from the local values
ShortenInsert(t) ==
    /\ t \in Running
    /\ t.pc = "s_insert"
    /\ store' = InsertOne(store, t.url_data)
    /\ resp' = URLResponse(t.short_code, t.url_input, t.url_data.created_at)
    /\ issued' = [issued EXCEPT ![t.url_input] =
                     @ \cup {<<t.short_code, t.url_data.created_at>>}]
    /\ tasks' = Finish(t)
    /\ UNCHANGED <<now, redirected>>

(* --------------------------- redirect_to_url --------------------------- *)
\* lines 98-100: the lookup by code, 404 when absent
RedirectFind(c) ==
    /\ Accepting
    /\ LET i == FindByCode(store, c) IN
       IF i = 0
       THEN /\ resp' = NotFound("redirect")
            /\ UNCHANGED tasks
       ELSE /\ Writes < MaxWrites
            /\ tasks' = Suspend(Task("r_inc", NoUrl, c, store[i]))
            /\ UNCHANGED resp
    /\ UNCHANGED <<store, now, issued, redirected>>

\* a redirect that answers without issuing its update
RedirectIncUnapplied(t) ==
    /\ t \in Running
    /\ t.pc = "r_inc"
    /\ resp' = RedirectResponse(t.url_data.original_url)
    /\ redirected' = [redirected EXCEPT ![t.short_code] = @ + 1]
    /\ tasks' = Finish(t)
    /\ UNCHANGED <<store, now, issued>>

\* a fire-and-forget redirect: the answer first, the update in a later step
RedirectIncForget(t) ==
    /\ t \in Running
    /\ \/ /\ t.pc = "r_inc"
          /\ resp' = RedirectResponse(t.url_data.original_url)
          /\ redirected' = [redirected EXCEPT ![t.short_code] = @ + 1]
          /\ tasks' = Resume(t, [t EXCEPT !.pc = "r_bg"])
          /\ UNCHANGED store
       \/ /\ t.pc = "r_bg"
          /\ store' = UpdateOneInc(store, t)
          /\ tasks' = Finish(t)
          /\ UNCHANGED <<resp, redirected>>
    /\ UNCHANGED <<now, issued>>

\* lines 103-108: the atomic increment, then the response from the document read
RedirectInc(t) ==
    /\ t \in Running
    /\ t.pc = "r_inc"
    /\ store' = UpdateOneInc(store, t)
    /\ resp' = RedirectResponse(t.url_data.original_url)
    /\ redirected' = [redirected EXCEPT ![t.short_code] = @ + 1]
    /\ tasks' = Finish(t)
    /\ UNCHANGED <<now, issued>>

(* ---------------------------- get_url_stats ---------------------------- *)
\* a stats call that counts as a visit
GetUrlStatsCounting(c) ==
    /\ Accepting
    /\ LET i == FindByCode(store, c) IN
       /\ resp' = IF i = 0 THEN NotFound("stats") ELSE StatsResponse(store[i])
       /\ store' = IF i = 0 THEN store ELSE [store EXCEPT ![i].clicks = @ + 1]
    /\ UNCHANGED <<now, tasks, issued, redirected>>

\* lines 113-122: one lookup, 404 when absent, else the document's fields
GetUrlStats(c) ==
    /\ Accepting
    /\ LET i == FindByCode(store, c) IN
       resp' = IF i = 0 THEN NotFound("stats") ELSE StatsResponse(store[i])
    /\ UNCHANGED <<store, now, tasks, issued, redirected>>

(* ------------------------------ behaviours ----------------------------- *)
Next ==
    \/ \E u \in Urls : ShortenFindUrl(u)
    \/ \E t \in Running : ShortenCheckCode(t)
    \/ \E t \in Running : ShortenInsert(t)
    \/ \E c \in Codes : RedirectFind(c)
    \/ \E t \in Running : RedirectInc(t)
    \/ \E c \in Codes : GetUrlStats(c)
    \/ Send

Spec == Init /\ [][Next]_vars

\* a suspended call takes its next step
TaskStep ==
    \E t \in Running : ShortenCheckCode(t) \/ ShortenInsert(t) \/ RedirectInc(t)

\* the event loop runs every ready task and sends every response
FairSpec == Spec /\ SF_vars(TaskStep) /\ WF_vars(Send)

\* a redirect suspended on its update takes that step
RedirectStep == \E t \in Running : RedirectInc(t)

\* the event loop resumes every redirect whose update is ready
FairRedirectSpec == Spec /\ SF_vars(RedirectStep) /\ WF_vars(Send)

\* calls one at a time: a call starts only when no other call is suspended
Idle == tasks = EmptyBag

SeqNext ==
    \/ Idle /\ \E u \in Urls : ShortenFindUrl(u)
    \/ \E t \in Running : ShortenCheckCode(t)
    \/ \E t \in Running : ShortenInsert(t)
    \/ Idle /\ \E c \in Codes : RedirectFind(c)
    \/ \E t \in Running : RedirectInc(t)
    \/ Idle /\ \E c \in Codes : GetUrlStats(c)
    \/ Send

SeqSpec == Init /\ [][SeqNext]_vars

(* ------------------------------- claims -------------------------------- *)
Records == 1..Len(store)

\* C1: under concurrent submissions of distinct new URLs no reachable store
\* state holds two records with the same short code: the records of two
\* different URLs never carry the same code.
CodesUniqueUnderConcurrency ==
    \A i, j \in Records :
        store[i].original_url # store[j].original_url
            => store[i].short_code # store[j].short_code

\* C2: for every original_url at most one record with that original_url
\* exists in every reachable state, concurrent submissions included.
OneRecordPerUrl ==
    \A u \in Urls : Cardinality({i \in Records : store[i].original_url = u}) <= 1

\* C3: the clicks of the record a code resolves to equals the number of
\* redirect calls on that code that have completed with a URL, in every
\* interleaving: over any N completed calls it grows by exactly N.
ClicksCountRedirects ==
    \A c \in Codes :
        FindByCode(store, c) # 0 => store[FindByCode(store, c)].clicks = redirected[c]

\* two redirect calls on one code have completed and none is in flight
TwoRedirectsCompleted ==
    /\ tasks = EmptyBag
    /\ \E c \in Codes : redirected[c] >= 2 /\ FindByCode(store, c) # 0

\* C4: calls one at a time: two successive submissions of the same URL return
\* identical code and created_at, so all the answers shorten_url has given
\* for one URL are the same pair.
RepeatedSubmissionSameAnswer ==
    \A u \in Urls : Cardinality(issued[u]) <= 1

\* C4, the part about the store: a submission of a URL that has a record
\* answers with the stored code, URL and created_at and changes nothing
\* in the store.
ExistingUrlSubmissionPure ==
    [][\A u \in Urls :
          (ShortenFindUrl(u) /\ FindByUrl(store, u) # 0)
              => /\ store' = store
                 /\ tasks' = tasks
                 /\ resp'.short_url = store[FindByUrl(store, u)].short_code
                 /\ resp'.original_url = u
                 /\ resp'.created_at = store[FindByUrl(store, u)].created_at]_vars

\* C5: calls one at a time: no two records in the store share a short code.
SequentialCodesUnique ==
    \A i, j \in Records : i # j => store[i].short_code # store[j].short_code

\* every code is in use, each by exactly one record
CodeSpaceUsedUp ==
    /\ Len(store) = Cardinality(Codes)
    /\ \A c \in Codes : \E i \in Records : store[i].short_code = c

\* a shorten_url call for URL u is suspended in its allocation
InAlloc(u) == \E t \in BagToSet(tasks) : t.url_input = u

\* C6: a shorten_url call for a URL with no record always terminates, also
\* when every candidate code it draws is in use.
ShortenTerminates ==
    \A u \in Urls : InAlloc(u) ~> ~InAlloc(u)

\* C7: a record stays in the store and its short_code, original_url and
\* created_at never change: between a state and its successor only clicks
\* of an existing record can differ.
RecordsKept ==
    [][/\ Len(store') >= Len(store)
       /\ \A i \in Records :
            /\ store'[i].short_code = store[i].short_code
            /\ store'[i].original_url = store[i].original_url
            /\ store'[i].created_at = store[i].created_at]_vars

\* two records, one of them visited
TwoRecordsOneVisited ==
    /\ Len(store) >= 2
    /\ \E i \in Records : store[i].clicks > 0

\* C8: clicks is 0 at insertion, never negative, never decreases, changes
\* only in the increment step of redirect_to_url, and that step adds
\* exactly 1 to one record.
ClicksDiscipline ==
    [][/\ \A i \in 1..Len(store') : store'[i].clicks >= 0
       /\ \A i \in (Len(store) + 1)..Len(store') : store'[i].clicks = 0
       /\ \A i \in Records :
            store'[i].clicks # store[i].clicks
                => /\ store'[i].clicks = store[i].clicks + 1
                   /\ \E t \in Running :
                        RedirectInc(t) /\ i = FindByCode(store, t.short_code)
       /\ \A t \in Running :
            (RedirectInc(t) /\ FindByCode(store, t.short_code) # 0)
                => store'[FindByCode(store, t.short_code)].clicks
                     = store[FindByCode(store, t.short_code)].clicks + 1]_vars

\* a record has been visited twice
VisitedTwice == \E i \in Records : store[i].clicks >= 2

\* C9: for a code no record carries, redirect_to_url and get_url_stats end
\* with 404 and leave the store and the suspended calls as they are.
UnknownCodeNotFound ==
    [][\A c \in Codes :
          FindByCode(store, c) = 0
              => /\ RedirectFind(c)
                    => (resp'.op = "redirect" /\ resp'.status = 404
                        /\ store' = store /\ tasks' = tasks)
                 /\ GetUrlStats(c)
                    => (resp'.op = "stats" /\ resp'.status = 404
                        /\ store' = store /\ tasks' = tasks)]_vars

\* a 404 has been answered while the store holds a record
NotFoundAnswered == resp.status = 404 /\ Len(store) >= 1

\* C10: get_url_stats on a code that has a record returns the record's
\* short_code, original_url, created_at and current clicks, and changes
\* nothing in the store.
StatsPureRead ==
    [][\A c \in Codes :
          (GetUrlStats(c) /\ FindByCode(store, c) # 0)
              => LET d == store[FindByCode(store, c)] IN
                 /\ store' = store
                 /\ tasks' = tasks
                 /\ resp'.op = "stats" /\ resp'.status = 200
                 /\ resp'.short_code = c
                 /\ resp'.original_url = d.original_url
                 /\ resp'.created_at = d.created_at
                 /\ resp'.clicks = d.clicks]_vars

\* stats have been returned for a record that has been visited
StatsOfVisitedReturned ==
    resp.op = "stats" /\ resp.status = 200 /\ resp.clicks >= 1

\* C11: the insert step fails with AlreadyExists and persists nothing
\* whenever a record with the same short code is present at the moment of
\* the insert (the submission then allocates a fresh code).
InsertRejectsDuplicateCode ==
    [][\A t \in Running :
          (ShortenInsert(t) /\ FindByCode(store, t.short_code) # 0)
              => store' = store]_vars

\* string.ascii_uppercase, string.ascii_lowercase and string.digits
AsciiUppercase ==
    {"A", "B", "C", "D", "E", "F", "G", "H", "I", "J", "K", "L", "M",
     "N", "O", "P", "Q", "R", "S", "T", "U", "V", "W", "X", "Y", "Z"}
AsciiLowercase ==
    {"a", "b", "c", "d", "e", "f", "g", "h", "i", "j", "k", "l", "m",
     "n", "o", "p", "q", "r", "s", "t", "u", "v", "w", "x", "y", "z"}
Digits == {"0", "1", "2", "3", "4", "5", "6", "7", "8", "9"}
Alphanumeric == AsciiUppercase \cup AsciiLowercase \cup Digits

\* code c has the configured length and only alphanumeric symbols
WellShaped(c) ==
    /\ Len(c) = CodeLength
    /\ \A k \in 1..Len(c) : c[k] \in Alphanumeric

\* C12: every code generate_short_code has produced (the candidate of a
\* suspended shorten_url call, the short_code of every record) has exactly
\* the configured length and only symbols of the 62-symbol alphabet.
CodeShape ==
    /\ Cardinality(Alphanumeric) = 62
    /\ \A i \in Records : WellShaped(store[i].short_code)
    /\ \A t \in BagToSet(tasks) :
          t.pc \in {"s_check", "s_insert"} => WellShaped(t.short_code)

\* a record is stored while another candidate code is being checked
RecordAndCandidate ==
    /\ Len(store) >= 1
    /\ \E t \in BagToSet(tasks) : t.pc = "s_check"

\* the codes shorten_url has returned for URL u
IssuedCodes(u) == {p[1] : p \in issued[u]}

\* C13: calls one at a time, from an empty store: once a URL has been
\* submitted (every submission returning code C) and C has been redirected
\* n times, get_url_stats on C reports clicks = n and the submitted URL,
\* whatever other calls came in between.
ScenarioStats ==
    [][\A c \in Codes, u \in Urls :
          (GetUrlStats(c) /\ c \in IssuedCodes(u))
              => /\ IssuedCodes(u) = {c}
                 /\ resp'.status = 200
                 /\ resp'.original_url = u
                 /\ resp'.clicks = redirected[c]]_vars

\* a URL submitted twice, its code redirected twice, then its stats read
SubmittedTwiceRedirectedTwice ==
    /\ resp.op = "stats" /\ resp.status = 200 /\ resp.clicks = 2
    /\ Cardinality(issued[resp.original_url]) = 2

\* C14: once shorten_url has returned code C for URL U, every later
\* redirect_to_url call on C returns exactly U, in every interleaving: the
\* record such a call reads on its lookup, and answers from, is U's.
RoundTrip ==
    [][\A c \in Codes, u \in Urls :
          (RedirectFind(c) /\ c \in IssuedCodes(u))
              => \E t \in BagToSet(tasks') :
                    /\ t.pc = "r_inc" /\ t.short_code = c
                    /\ RedirectResponse(t.url_data.original_url) = RedirectResponse(u)]_vars

\* redirect_to_url calls on code c that have found a record: those that have
\* answered and those suspended between the lookup and the update
StartedRedirects(c) ==
    redirected[c] + SumOver([t \in BagToSet(tasks) |->
                                IF t.pc = "r_inc" /\ t.short_code = c
                                THEN CopiesIn(t, tasks) ELSE 0],
                            BagToSet(tasks))

\* clicks over the records that carry code c
ClicksOf(c) ==
    SumOver([i \in Records |-> IF store[i].short_code = c THEN store[i].clicks ELSE 0],
            Records)

\* a redirect finds a record only after an insert has used one write
MaxRedirects == MaxWrites - 1

\* C15: every redirect_to_url call that finds a record eventually applies its
\* increment, exactly once: no code stays for ever with n calls that found it
\* and fewer than n counted, the count never exceeds the calls that found the
\* code, every call that has answered with a URL is counted, and a call that
\* ends in not-found changes no counter.
IncrementAppliedOnce ==
    /\ \A n \in 1..MaxRedirects :
          []<>(\A c \in Codes : StartedRedirects(c) >= n => ClicksOf(c) >= n)
    /\ [](\A c \in Codes :
             /\ StartedRedirects(c) <= MaxRedirects
             /\ ClicksOf(c) <= StartedRedirects(c)
             /\ ClicksOf(c) >= redirected[c])
    /\ [][\A c \in Codes :
             (RedirectFind(c) /\ resp' = NotFound("redirect")) => store' = store]_vars

\* two redirects of one code suspended before their update, none applied yet
TwoRedirectsPending ==
    \E c \in Codes : StartedRedirects(c) = 2 /\ ClicksOf(c) = 0 /\ redirected[c] = 0

\* C16: redirect_to_url answers only after its increment is in the store, so
\* a get_url_stats call that starts after redirects on its code have answered
\* reports a clicks value that includes every one of them.
StatsIncludesAnsweredRedirects ==
    [][\A c \in Codes :
          (GetUrlStats(c) /\ redirected[c] >= 1)
              => /\ resp'.status = 200
                 /\ resp'.clicks >= redirected[c]]_vars

\* stats read after one redirect has answered, a second one still suspended
StatsWhileRedirectPending ==
    /\ resp.op = "stats" /\ resp.status = 200 /\ resp.clicks = 1
    /\ redirected[resp.short_code] = 1
    /\ StartedRedirects(resp.short_code) = 2

\* clicks over all records
TotalClicks == SumOver([i \in Records |-> store[i].clicks], Records)

\* C17: in every reachable state, also when a race has left several records
\* with one short code, the clicks of all records add up to the number of
\* increment steps run so far: each step updates exactly one matching record.
ClicksSumEqualsIncrements ==
    TotalClicks = SumOver(redirected, Codes)

\* two records share a code and a redirect on it has been counted
DuplicateCodeVisited ==
    /\ \E i, j \in Records : i < j /\ store[i].short_code = store[j].short_code
    /\ TotalClicks >= 1

\* C18: every successful shorten_url response describes a record that is in
\* the store when the response is produced: a record with the response's
\* code, URL and creation time exists, in every interleaving.
ResponseDescribesRecord ==
    (resp.op = "shorten" /\ resp.status = 200)
        => \E i \in Records :
              /\ store[i].short_code = resp.short_url
              /\ store[i].original_url = resp.original_url
              /\ store[i].created_at = resp.created_at

====
